---------------------------- MODULE Spec2Model ----------------------------
(***************************************************************************)
(* Model of zgoubidoo's survey (survey.py) and of the sbend and quadrupole *)
(* converters (converters/zgoubi.py).                                      *)
(*                                                                         *)
(* Numbers.  A Python float is a record [k, n, d]: k = "num" is the        *)
(* rational n/d in lowest terms with d > 0, k = "nan" is NaN, k = "inf" is *)
(* an infinity of sign n, and k = "none" is Python's None (a key that      *)
(* element.get() does not find).  Angles are in milliradians, lengths in   *)
(* centimetres, so that every input is an integer.                         *)
(***************************************************************************)
EXTENDS Integers, Sequences, FiniteSets, TLC

VARIABLES element, kinematics, options, result,
          beamline, surveyed, history

vars == <<element, kinematics, options, result, beamline, surveyed, history>>

(***************************** bounds **************************************)
MaxAngle == 2
MaxL == 2
MaxTilt == 1
MaxK == 1
MaxLen == 3
MaxRuns == 2
MaxDrift == 2
MaxCoord == 0

(*************************** float arithmetic ******************************)
Abs(i) == IF i < 0 THEN -i ELSE i

RECURSIVE GCD(_, _)
GCD(a, b) == IF b = 0 THEN a ELSE GCD(b, a % b)

Rat(n, d) ==
    LET g == GCD(Abs(n), Abs(d))
        s == IF d < 0 THEN -1 ELSE 1
    IN  [k |-> "num", n |-> (s * n) \div g, d |-> (s * d) \div g]

Num(i) == [k |-> "num", n |-> i, d |-> 1]
NaN == [k |-> "nan", n |-> 0, d |-> 1]
Inf(s) == [k |-> "inf", n |-> s, d |-> 0]
None == [k |-> "none", n |-> 0, d |-> 1]

isnan(a) == a.k = "nan"

SignOf(i) == IF i < 0 THEN -1 ELSE IF i > 0 THEN 1 ELSE 0

\* unary minus
Neg(a) == IF a.k = "nan" THEN NaN
          ELSE IF a.k = "inf" THEN Inf(-a.n)
          ELSE Rat(-a.n, a.d)

\* numpy.abs
NpAbs(a) == IF a.k = "nan" THEN NaN
            ELSE IF a.k = "inf" THEN Inf(1)
            ELSE Rat(Abs(a.n), a.d)

\* numpy.sign
NpSign(a) == IF a.k = "nan" THEN NaN ELSE Num(SignOf(a.n))

\* a + b
Add(a, b) ==
    IF a.k = "nan" \/ b.k = "nan" THEN NaN
    ELSE IF a.k = "inf" /\ b.k = "inf" THEN (IF a.n = b.n THEN a ELSE NaN)
    ELSE IF a.k = "inf" THEN a
    ELSE IF b.k = "inf" THEN b
    ELSE Rat(a.n * b.d + b.n * a.d, a.d * b.d)

\* a * b
Mul(a, b) ==
    IF a.k = "nan" \/ b.k = "nan" THEN NaN
    ELSE IF a.k = "inf" \/ b.k = "inf"
         THEN (IF a.n = 0 \/ b.n = 0 THEN NaN ELSE Inf(SignOf(a.n) * SignOf(b.n)))
    ELSE Rat(a.n * b.n, a.d * b.d)

\* a == 0.0, a < 0 (every comparison with NaN is false, a != 0 is its negation)
IsZero(a) == a.k = "num" /\ a.n = 0
IsNeg(a) == a.k \in {"num", "inf"} /\ a.n < 0

\* a / b for a nonzero divisor; the caller decides what a zero divisor does
Div(a, b) ==
    IF a.k = "nan" \/ b.k = "nan" THEN NaN
    ELSE IF a.k = "inf" /\ b.k = "inf" THEN NaN
    ELSE IF a.k = "inf" THEN Inf(a.n * SignOf(b.n))
    ELSE IF b.k = "inf" THEN Num(0)
    ELSE Rat(a.n * b.d, a.d * b.n)

\* np.pi, in milliradians
Pi == 3142


(***************************** inputs ***************************************)
Pending == [raised |-> "pending", cmds |-> <<>>, divided |-> FALSE]

NoElement == [L |-> None, ANGLE |-> None, TILT |-> None, E1 |-> None,
              E2 |-> None, K1 |-> None, K1L |-> None]

BRhoSet == {Num(-1), Num(1), Num(2)}

Floats(lo, hi) == {Num(i) : i \in lo..hi}

\* sbend elements: NaN is an unset attribute; a bend has a positive length
SbendElements ==
    {[NoElement EXCEPT !.L = l, !.ANGLE = a, !.TILT = t, !.E1 = e1, !.E2 = e2] :
        l \in Floats(1, MaxL),
        a \in Floats(-MaxAngle, MaxAngle) \cup {NaN},
        t \in Floats(-MaxTilt, MaxTilt) \cup {NaN},
        e1 \in {NaN, Num(1)},
        e2 \in {NaN, Num(1)}}

\* quadrupole elements: None is a key that element.get() does not find
QuadElements ==
    {[NoElement EXCEPT !.L = l, !.K1 = k1, !.K1L = k1l] :
        l \in Floats(1, MaxL),
        k1 \in Floats(-MaxK, MaxK) \cup {None},
        k1l \in Floats(-MaxK, MaxK) \cup {None}}

NoOptions == [command |-> "default", R0 |-> None]

(***************************** sbend ****************************************)
Bend(cls, XL, B1, KPOS, W_E, W_S) ==
    [cls |-> cls, XL |-> XL, B1 |-> B1, KPOS |-> KPOS, W_E |-> W_E,
     W_S |-> W_S, COLOR |-> "default"]

ChangeRef(suffix, XR) == [cls |-> "ChangeRef", suffix |-> suffix, XR |-> XR]

\* the guard dropped: the division runs for every angle, and a zero angle
\* divides by zero
sbend_b1_unguarded(e, kin) ==
    IF IsZero(e.ANGLE)
    THEN [raised |-> "ZeroDivisionError", divided |-> TRUE, B1 |-> NaN]
    ELSE [raised |-> "", divided |-> TRUE,
          B1 |-> Div(kin.brho, Div(e.L, NpAbs(e.ANGLE)))]

\* the field of the bend; divided records that L / |ANGLE| was evaluated
sbend_b1(e, kin) ==
    IF IsZero(e.ANGLE)
    THEN [raised |-> "", divided |-> FALSE, B1 |-> Num(0)]
    ELSE [raised |-> "", divided |-> TRUE,
          B1 |-> Div(kin.brho, Div(e.L, NpAbs(e.ANGLE)))]

\* NaN pole face angles and tilt are zero
sbend_we(e) == IF isnan(e.E1) THEN Num(0) ELSE e.E1
sbend_ws(e) == IF isnan(e.E2) THEN Num(0) ELSE e.E2
sbend_tilt(e) == IF isnan(e.TILT) THEN Num(0) ELSE e.TILT

\* the unset tilt is not told apart from a set one
sbend_return_always_wrapped(e, tilt, b) ==
    IF IsNeg(e.ANGLE)
    THEN <<ChangeRef("_CRL", Neg(Add(Neg(tilt), Num(Pi)))),
           b,
           ChangeRef("_CRR", Add(Neg(tilt), Num(Pi)))>>
    ELSE <<ChangeRef("_CRL", tilt), b, ChangeRef("_CRR", Neg(tilt))>>

\* the tilt of the negative bend enters with the wrong sign
sbend_return_tilt_sign(e, tilt, b) ==
    IF IsNeg(e.ANGLE)
    THEN <<ChangeRef("_CRL", Neg(Add(tilt, Num(Pi)))),
           b,
           ChangeRef("_CRR", Add(tilt, Num(Pi)))>>
    ELSE IF isnan(e.TILT)
         THEN <<b>>
         ELSE <<ChangeRef("_CRL", tilt), b, ChangeRef("_CRR", Neg(tilt))>>

\* the exit rotation of the positive bend is not negated
sbend_return_exit_not_negated(e, tilt, b) ==
    IF IsNeg(e.ANGLE)
    THEN <<ChangeRef("_CRL", Neg(Add(Neg(tilt), Num(Pi)))),
           b,
           ChangeRef("_CRR", Add(Neg(tilt), Num(Pi)))>>
    ELSE IF isnan(e.TILT)
         THEN <<b>>
         ELSE <<ChangeRef("_CRL", tilt), b, ChangeRef("_CRR", tilt)>>

\* the commands returned for the bend b
sbend_return(e, tilt, b) ==
    IF IsNeg(e.ANGLE)
    THEN <<ChangeRef("_CRL", Neg(Add(Neg(tilt), Num(Pi)))),
           b,
           ChangeRef("_CRR", Add(Neg(tilt), Num(Pi)))>>
    ELSE IF isnan(e.TILT)
         THEN <<b>>
         ELSE <<ChangeRef("_CRL", tilt), b, ChangeRef("_CRR", Neg(tilt))>>

sbend_to_zgoubi(e, kin, opts) ==
    LET f == sbend_b1(e, kin)
        b0 == Bend(IF opts.command = "default" THEN "Bend" ELSE opts.command,
                   e.L, f.B1, 3,
                   Mul(sbend_we(e), NpSign(e.ANGLE)),
                   Mul(sbend_ws(e), NpSign(e.ANGLE)))
        b == IF ~IsZero(e.TILT) THEN [b0 EXCEPT !.COLOR = "goldenrod"] ELSE b0
    IN  IF f.raised # ""
        THEN [raised |-> f.raised, divided |-> f.divided, cmds |-> <<>>]
        ELSE [raised |-> "", divided |-> f.divided,
              cmds |-> sbend_return(e, sbend_tilt(e), b)]

InitSbend ==
    /\ element \in SbendElements
    /\ kinematics \in {[brho |-> b] : b \in BRhoSet}
    /\ options \in {[NoOptions EXCEPT !.command = c] : c \in {"default", "FakeDrift"}}
    /\ result = Pending
    /\ beamline = <<>>
    /\ surveyed = <<>>
    /\ history = <<>>

ConvertSbend ==
    /\ result = Pending
    /\ result' = sbend_to_zgoubi(element, kinematics, options)
    /\ UNCHANGED <<element, kinematics, options, beamline, surveyed, history>>

NextSbend == ConvertSbend

SpecSbend == InitSbend /\ [][NextSbend]_vars

(***************************** quadrupole ***********************************)
Quadrupole(XL, R0, B0) ==
    [cls |-> "Quadrupole", XL |-> XL, R0 |-> R0, B0 |-> B0,
     XE |-> Num(0), LAM_E |-> Num(0), XS |-> Num(0), LAM_S |-> Num(0)]

\* Unbound is the local variable gradient before any assignment
Unbound == [k |-> "unbound", n |-> 0, d |-> 1]

quadrupole_to_zgoubi(e, kin, opts) ==
    LET bore_radius == IF opts.R0 = None THEN Num(10) ELSE opts.R0
        gradient0 == IF e.K1 = None /\ e.K1L = None THEN Num(0) ELSE Unbound
        gradient == IF e.K1 # None THEN e.K1 ELSE gradient0
    IN  IF e.K1 # None
        THEN [raised |-> "", divided |-> FALSE,
              cmds |-> <<Quadrupole(e.L, bore_radius,
                                    Mul(Mul(gradient, kin.brho), bore_radius))>>]
        ELSE [raised |-> "KeyError", divided |-> FALSE, cmds |-> <<>>]

InitQuad ==
    /\ element \in QuadElements
    /\ kinematics \in {[brho |-> b] : b \in BRhoSet}
    /\ options \in {[NoOptions EXCEPT !.R0 = r] : r \in {None, Num(5)}}
    /\ result = Pending
    /\ beamline = <<>>
    /\ surveyed = <<>>
    /\ history = <<>>

ConvertQuadrupole ==
    /\ result = Pending
    /\ result' = quadrupole_to_zgoubi(element, kinematics, options)
    /\ UNCHANGED <<element, kinematics, options, beamline, surveyed, history>>

NextQuad == ConvertQuadrupole

SpecQuad == InitQuad /\ [][NextQuad]_vars

(***************************** frames ***************************************)
(* Frame and Patchable are collaborators of survey.  A frame is a pose in  *)
(* the plane: an origin (x, y) and a heading d in quarter turns.  Placing  *)
(* an element records the entry frame and the exit frame, the entry frame  *)
(* moved by the element's length along the heading and then turned.        *)
(***************************************************************************)
\* None, where a frame is expected
NoFrame == [x |-> 0, y |-> 0, d |-> -1]

\* Frame()
Frame == [x |-> 0, y |-> 0, d |-> 0]

Translate(f, l) ==
    [f EXCEPT !.x = f.x + (IF f.d = 0 THEN l ELSE IF f.d = 2 THEN -l ELSE 0),
              !.y = f.y + (IF f.d = 1 THEN l ELSE IF f.d = 3 THEN -l ELSE 0)]

Rotate(f, turn) == [f EXCEPT !.d = (f.d + turn) % 4]

\* e.place(frame), then e.exit
place(e, frame) ==
    [e EXCEPT !.entry = frame, !.exit = Rotate(Translate(frame, e.L), e.turn)]

\* the elements of a line before any placement: straight ones of several
\* lengths and one that turns the frame
Patchables ==
    {[patchable |-> TRUE, L |-> l, turn |-> 0, entry |-> NoFrame, exit |-> NoFrame] :
        l \in 1..MaxDrift}
    \cup {[patchable |-> TRUE, L |-> 1, turn |-> 1, entry |-> NoFrame, exit |-> NoFrame]}

NonPatchable ==
    [patchable |-> FALSE, L |-> 0, turn |-> 0, entry |-> NoFrame, exit |-> NoFrame]

Lines == UNION {[1..n -> Patchables \cup {NonPatchable}] : n \in 1..MaxLen}

\* reference_frame: None or a frame
ReferenceFrames ==
    {NoFrame, [x |-> 0, y |-> 0, d |-> 1]}
    \cup {[x |-> x, y |-> 0, d |-> 0] : x \in 0..MaxCoord}

(***************************** survey ***************************************)
\* reference_frame or Frame()
survey_frame_ignored(reference_frame) == Frame

survey_frame(reference_frame) ==
    IF reference_frame = NoFrame THEN Frame ELSE reference_frame

\* s is the state of the loop: the elements, the running frame, the calls of
\* place made so far and whether one of them raised.  fail is the index of
\* the element whose place raises, 0 when none does.

\* frame = e.exit is dropped
survey_body_frame_kept(s, i, fail) ==
    IF ~s.line[i].patchable THEN s
    ELSE IF i = fail
         THEN [s EXCEPT !.calls = Append(@, [idx |-> i, frame |-> s.frame]),
                        !.raised = TRUE]
         ELSE [s EXCEPT !.line[i] = place(@, s.frame),
                        !.calls = Append(@, [idx |-> i, frame |-> s.frame])]

\* the isinstance test is dropped
survey_body_all_placed(s, i, fail) ==
    IF i = fail
    THEN [s EXCEPT !.calls = Append(@, [idx |-> i, frame |-> s.frame]),
                   !.raised = TRUE]
    ELSE [s EXCEPT !.line[i] = place(@, s.frame),
                   !.frame = place(s.line[i], s.frame).exit,
                   !.calls = Append(@, [idx |-> i, frame |-> s.frame])]

\* the error of place is swallowed and the loop goes on
survey_body_swallow(s, i, fail) ==
    IF ~s.line[i].patchable THEN s
    ELSE IF i = fail
         THEN [s EXCEPT !.calls = Append(@, [idx |-> i, frame |-> s.frame])]
         ELSE [s EXCEPT !.line[i] = place(@, s.frame),
                        !.frame = place(s.line[i], s.frame).exit,
                        !.calls = Append(@, [idx |-> i, frame |-> s.frame])]

\* one iteration of the loop, on element i
survey_body(s, i, fail) ==
    IF ~s.line[i].patchable THEN s
    ELSE IF i = fail
         THEN [s EXCEPT !.calls = Append(@, [idx |-> i, frame |-> s.frame]),
                        !.raised = TRUE]
         ELSE [s EXCEPT !.line[i] = place(@, s.frame),
                        !.frame = place(s.line[i], s.frame).exit,
                        !.calls = Append(@, [idx |-> i, frame |-> s.frame])]

\* for e in beamline.line, from element i on; an error ends the loop
RECURSIVE survey_loop(_, _, _)
survey_loop(s, i, fail) ==
    IF s.raised \/ i > Len(s.line) THEN s
    ELSE survey_loop(survey_body(s, i, fail), i + 1, fail)

\* survey(beamline, reference_frame): the elements are those of the beamline,
\* placed where they stand; surveyed is the container returned, if any
survey(bl, reference_frame, fail) ==
    LET s == survey_loop([line |-> bl.line, frame |-> survey_frame(reference_frame),
                          calls |-> <<>>, raised |-> FALSE], 1, fail)
    IN  [line |-> s.line, calls |-> s.calls, raised |-> s.raised,
         surveyed |-> IF s.raised THEN <<>>
                      ELSE <<[name |-> bl.name, line |-> s.line]>>]

InitSurvey ==
    /\ beamline \in {[name |-> "LINE", line |-> l] : l \in Lines}
    /\ surveyed = <<>>
    /\ history = <<>>
    /\ element = NoElement
    /\ kinematics = [brho |-> Num(1)]
    /\ options = NoOptions
    /\ result = Pending

\* one call of survey on the beamline; history keeps, for each call, its
\* argument, the elements before and after it and the calls of place it made.
\* An error propagates to the caller, and no further call follows it.
Survey(reference_frame, fail) ==
    /\ Len(history) < MaxRuns
    /\ \A r \in 1..Len(history) : ~history[r].raised
    /\ LET r == survey(beamline, reference_frame, fail)
       IN  /\ beamline' = [beamline EXCEPT !.line = r.line]
           /\ surveyed' = r.surveyed
           /\ history' = Append(history,
                                [reference_frame |-> reference_frame,
                                 fail |-> fail,
                                 before |-> beamline.line,
                                 after |-> r.line,
                                 calls |-> r.calls,
                                 raised |-> r.raised,
                                 surveyed |-> r.surveyed])
    /\ UNCHANGED <<element, kinematics, options, result>>

NextSurvey ==
    \E reference_frame \in ReferenceFrames :
        \E fail \in {0} \cup {i \in 1..Len(beamline.line) : beamline.line[i].patchable} :
            Survey(reference_frame, fail)

SpecSurvey == InitSurvey /\ [][NextSurvey]_vars

(***************************** converter claims *****************************)
Converted == result # Pending
Returned == Converted /\ result.raised = ""

IsNum(a) == a.k = "num"
IsChangeRef(c) == c.cls = "ChangeRef"
IsBend(c) == c.cls = (IF options.command = "default" THEN "Bend" ELSE options.command)

\* the Bend among the commands returned for an sbend
TheBend == result.cmds[IF Len(result.cmds) = 1 THEN 1 ELSE 2]

\* TILT, or 0 when TILT is NaN, in milliradians
TiltOrZero == IF isnan(element.TILT) THEN 0 ELSE element.TILT.n

\* C4: the quadrupole converter raises the invalid-combination error, and
\* returns no command, for every element that has both K1 and K1L set.
C4_BothSetRaises ==
    (Converted /\ element.K1 # None /\ element.K1L # None)
        => (result.raised = "KeyError" /\ result.cmds = <<>>)

\* C5: an sbend whose TILT is NaN converts to exactly 1 command, the Bend
\* alone, whatever the value or sign of ANGLE.
C5_NanTiltOneCommand ==
    (Converted /\ isnan(element.TILT))
        => (Returned /\ Len(result.cmds) = 1 /\ IsBend(result.cmds[1]))

\* C5, amended: an sbend whose TILT is NaN and whose ANGLE is not negative
\* converts to exactly 1 command, the Bend alone.
C5_NanTiltNotNegativeOneCommand ==
    (Converted /\ isnan(element.TILT) /\ ~IsNeg(element.ANGLE))
        => (Returned /\ Len(result.cmds) = 1 /\ IsBend(result.cmds[1]))

C5_Witness ==
    /\ Returned /\ isnan(element.TILT) /\ IsNum(element.ANGLE)
    /\ element.ANGLE.n > 0 /\ Len(result.cmds) = 1

\* C6: an sbend with ANGLE < 0 converts to exactly [ChangeRef, Bend,
\* ChangeRef]; the entry rotation is -(-tilt + pi), the exit rotation is
\* (-tilt + pi), the negation of the entry rotation, with tilt = TILT or 0
\* when TILT is NaN.
C6_NegativeAngleWrapped ==
    (Converted /\ IsNeg(element.ANGLE))
        => /\ Returned
           /\ Len(result.cmds) = 3
           /\ IsChangeRef(result.cmds[1])
           /\ IsBend(result.cmds[2])
           /\ IsChangeRef(result.cmds[3])
           /\ result.cmds[1].XR = Num(TiltOrZero - Pi)
           /\ result.cmds[3].XR = Num(Pi - TiltOrZero)
           /\ result.cmds[1].XR.n + result.cmds[3].XR.n = 0

C6_Witness ==
    /\ Returned /\ IsNeg(element.ANGLE) /\ IsNum(element.TILT)
    /\ element.TILT.n # 0 /\ Len(result.cmds) = 3

\* C7: an sbend with ANGLE >= 0 and a TILT that is set, zero or not,
\* converts to exactly [ChangeRef, Bend, ChangeRef], with entry rotation
\* TILT and exit rotation -TILT.
C7_SetTiltWrapped ==
    (Converted /\ IsNum(element.ANGLE) /\ element.ANGLE.n >= 0 /\ IsNum(element.TILT))
        => /\ Returned
           /\ Len(result.cmds) = 3
           /\ IsChangeRef(result.cmds[1])
           /\ IsBend(result.cmds[2])
           /\ IsChangeRef(result.cmds[3])
           /\ result.cmds[1].XR = element.TILT
           /\ result.cmds[3].XR = Num(0 - element.TILT.n)

C7_Witness ==
    /\ Returned /\ IsNum(element.ANGLE) /\ element.ANGLE.n >= 0
    /\ IsNum(element.TILT) /\ element.TILT.n # 0 /\ Len(result.cmds) = 3

\* C8: a quadrupole with neither K1 nor K1L converts, without raising, to
\* exactly one Quadrupole command with B0 = 0 and XE, XS, LAM_E, LAM_S zero.
C8_NeitherSetZeroGradient ==
    (Converted /\ element.K1 = None /\ element.K1L = None)
        => /\ Returned
           /\ Len(result.cmds) = 1
           /\ result.cmds[1].cls = "Quadrupole"
           /\ result.cmds[1].B0 = Num(0)
           /\ result.cmds[1].XE = Num(0) /\ result.cmds[1].XS = Num(0)
           /\ result.cmds[1].LAM_E = Num(0) /\ result.cmds[1].LAM_S = Num(0)

\* C9: for ANGLE = 0 the Bend's B1 is exactly zero and L / |ANGLE| is never
\* evaluated; for every other ANGLE, B1 = brho / (L / |ANGLE|), that is
\* B1 * L = brho * |ANGLE| (and NaN for a NaN ANGLE).
C9_ZeroAngleNoDivision ==
    /\ (Converted /\ IsZero(element.ANGLE))
          => (Returned /\ ~result.divided /\ TheBend.B1 = Num(0))
    /\ (Converted /\ IsNum(element.ANGLE) /\ element.ANGLE.n # 0)
          => /\ Returned /\ result.divided
             /\ IsNum(TheBend.B1)
             /\ TheBend.B1.n * element.L.n
                   = kinematics.brho.n * Abs(element.ANGLE.n) * TheBend.B1.d
    /\ (Converted /\ isnan(element.ANGLE))
          => (Returned /\ result.divided /\ isnan(TheBend.B1))

C9_Witness ==
    Returned /\ IsZero(element.ANGLE) /\ TheBend.B1 = Num(0) /\ ~result.divided

(***************************** survey claims ********************************)
\* the indices of the Patchable elements of a line, in order
PatchableIdx(line) ==
    SelectSeq([i \in 1..Len(line) |-> i], LAMBDA i : line[i].patchable)

\* the frame a call of survey starts from
StartFrame(h) == IF h.reference_frame = NoFrame THEN Frame ELSE h.reference_frame

\* C1: the first Patchable element is placed in the reference frame (a
\* default Frame when none is given), every later one in the exit frame of
\* the Patchable element before it; each Patchable element is placed exactly
\* once, in sequence order.
C1_FrameThreaded ==
    \A r \in 1..Len(history) :
        LET h == history[r]
            P == PatchableIdx(h.before)
        IN  /\ Len(h.calls) <= Len(P)
            /\ ~h.raised => Len(h.calls) = Len(P)
            /\ \A j \in 1..Len(h.calls) :
                  /\ h.calls[j].idx = P[j]
                  /\ h.calls[j].frame = IF j = 1 THEN StartFrame(h)
                                        ELSE h.after[P[j - 1]].exit

C1_Witness ==
    \E r \in 1..Len(history) :
        /\ ~history[r].raised
        /\ Len(history[r].calls) = 3
        /\ history[r].reference_frame = NoFrame
        /\ history[r].calls[3].frame # history[r].calls[2].frame

\* the frames handed to place by a survey, without error, of a line
FramesPlaced(line, start) ==
    LET s == survey_loop([line |-> line, frame |-> start, calls |-> <<>>,
                          raised |-> FALSE], 1, 0)
    IN  [j \in 1..Len(s.calls) |-> s.calls[j].frame]

\* C2: survey leaves every non-Patchable element unchanged and at its
\* position in the returned line, and the Patchable elements receive the
\* frames they would receive if the non-Patchable elements were absent.
C2_NonPatchableSkipped ==
    \A r \in 1..Len(history) :
        LET h == history[r]
            without == SelectSeq(h.before, LAMBDA e : e.patchable)
        IN  /\ \A i \in 1..Len(h.before) :
                  ~h.before[i].patchable =>
                      /\ h.after[i] = h.before[i]
                      /\ ~h.raised => /\ Len(h.surveyed[1].line) = Len(h.before)
                                      /\ h.surveyed[1].line[i] = h.before[i]
            /\ \A j \in 1..Len(h.calls) :
                  h.calls[j].frame = FramesPlaced(without, StartFrame(h))[j]

C2_Witness ==
    \E r \in 1..Len(history) :
        /\ ~history[r].raised
        /\ Len(history[r].before) = 3
        /\ history[r].before[1].patchable
        /\ ~history[r].before[2].patchable
        /\ history[r].before[3].patchable
        /\ history[r].after[3].entry = history[r].after[1].exit

\* C3: when place of an element raises, survey returns no container, the
\* Patchable elements before it keep the placement of this call, place is
\* not invoked on any later element, and the failing element and the later
\* ones hold no placement from this call.
C3_ErrorAborts ==
    \A r \in 1..Len(history) :
        LET h == history[r]
            k == h.fail
        IN  (k > 0 \/ h.raised) =>
              /\ k > 0 /\ h.raised
              /\ h.surveyed = <<>>
              /\ r = Len(history) => surveyed = <<>>
              /\ \A j \in 1..Len(h.calls) : h.calls[j].idx <= k
              /\ \A i \in 1..Len(h.before) :
                    /\ (i < k /\ h.before[i].patchable) =>
                          /\ \E j \in 1..Len(h.calls) :
                                /\ h.calls[j].idx = i
                                /\ h.after[i].entry = h.calls[j].frame
                          /\ h.after[i].exit # NoFrame
                          /\ r = Len(history) => beamline.line[i] = h.after[i]
                    /\ i >= k => h.after[i] = h.before[i]

C3_Witness ==
    \E r \in 1..Len(history) :
        /\ history[r].raised
        /\ history[r].fail = 2
        /\ Len(history[r].before) = 3
        /\ history[r].before[1].patchable
        /\ history[r].before[3].patchable
        /\ history[r].after[1].entry # NoFrame
        /\ history[r].after[3].entry = NoFrame

\* the entry frame of element i of a line surveyed from start: start moved
\* through the Patchable elements before i
RECURSIVE EntryAt(_, _, _)
EntryAt(line, start, i) ==
    IF i = 1 THEN start
    ELSE LET f == EntryAt(line, start, i - 1)
         IN  IF line[i - 1].patchable
             THEN Rotate(Translate(f, line[i - 1].L), line[i - 1].turn)
             ELSE f

\* C10: after two calls of survey on the same beamline from two different
\* starting frames, every Patchable element holds the placement derived from
\* the second starting frame, which differs from the one the first call gave.
C10_SecondSurveyOverwrites ==
    \A r \in 2..Len(history) :
        LET h1 == history[r - 1]
            h2 == history[r]
        IN  (~h1.raised /\ ~h2.raised /\ StartFrame(h1) # StartFrame(h2)) =>
              \A i \in 1..Len(h2.after) :
                  h2.after[i].patchable =>
                      /\ h2.after[i].entry = EntryAt(h2.after, StartFrame(h2), i)
                      /\ h2.after[i].exit = EntryAt(h2.after, StartFrame(h2), i + 1)
                      /\ h2.after[i].entry # h1.after[i].entry
                      /\ h2.after[i].exit # h1.after[i].exit

C10_Witness ==
    /\ Len(history) = 2
    /\ ~history[1].raised /\ ~history[2].raised
    /\ history[1].reference_frame # NoFrame
    /\ history[2].reference_frame # NoFrame
    /\ history[1].reference_frame # history[2].reference_frame
    /\ Len(PatchableIdx(beamline.line)) >= 2
    /\ \A i \in 1..Len(beamline.line) :
          beamline.line[i].patchable => beamline.line[i] = history[2].after[i]

=============================================================================
